---- MODULE Spec2Model ----
(***************************************************************************)
(* Dashboard state synchronisation of sensei-ai (frontend): the dataset    *)
(* accessor (utils/dashboardData.ts), the DashboardPage state and effects  *)
(* and the Quiz component state (Spec), and the upload page with its       *)
(* hand-off to the dashboard and the PDF viewer (UploadSpec).  One action  *)
(* per event handler; the React effects a handler triggers are part of the *)
(* handler's action.                                                       *)
(***************************************************************************)
EXTENDS Integers, Sequences, FiniteSets, TLC

VARIABLES
    loadState,             \* "pending" | "loaded" | "failed": the one-shot fetch
    dashboardData,         \* <<>> (null) or <<d>>
    selectedSubtopicId,    \* Null or a subtopic id
    pdfPageNumber,         \* Undefined or a page number
    explanationText,       \* DashboardPage.explanationText
    questionStack,         \* sequence of QuestionStackItem
    currentQuestionIndex,  \* 0-based
    questionsComplete,     \* BOOLEAN
    selectedAnswer,        \* Quiz.selectedAnswer (Null or a choice id)
    correctAnswerId,       \* Quiz.correctAnswerId
    selectedExplanation,   \* Quiz.selectedExplanation
    last,                  \* history: the last event and what it found
    answeredLog,           \* history: indices answered since the stack was built
    route,                 \* the router's current path: "/" | "/dashboard"
    view,                  \* the mounted page: "home" | "dashboard"
    selectedFile,          \* Home.selectedFile: 0 (null) or a file
    uploadedPDF,           \* sessionStorage "uploadedPDF": 0 (absent) or an object URL
    objectUrls,            \* the blob URL store: object URL k is for file objectUrls[k]
    revoked,               \* the object URLs passed to URL.revokeObjectURL
    alertMessage,          \* the dialog the last event raised, Null if none
    pdfFile,               \* DashboardPage.pdfFile: 0 (null) or an object URL string
    blobUrlRef             \* PDFViewer.blobUrlRef: 0 (null) or an object URL

page == <<selectedSubtopicId, pdfPageNumber, explanationText, questionStack,
          currentQuestionIndex, questionsComplete>>
quiz == <<selectedAnswer, correctAnswerId, selectedExplanation>>
upload == <<route, view, selectedFile, uploadedPDF, objectUrls, revoked,
            alertMessage, pdfFile, blobUrlRef>>
vars == <<loadState, dashboardData, selectedSubtopicId, pdfPageNumber,
          explanationText, questionStack, currentQuestionIndex,
          questionsComplete, selectedAnswer, correctAnswerId,
          selectedExplanation, last, answeredLog, route, view, selectedFile,
          uploadedPDF, objectUrls, revoked, alertMessage, pdfFile, blobUrlRef>>

-----------------------------------------------------------------------------
(* Values *)

Null == "<null>"            \* JS null / undefined of a string-typed value
Undefined == -1             \* JS undefined of a number-typed value

NoExplanation == "No explanation available."
NoQuestions == "No questions available for this subtopic."
AllAnswered == "All questions have been answered!"

\* JS truthiness of a nullable string and of an optional number
Truthy(s) == s # Null /\ s # ""
TruthyNum(n) == n # Undefined /\ n # 0

-----------------------------------------------------------------------------
(* Bounded input datasets *)

MaxTopics == 2
MaxQuestions == 2

Sub(id, p) == [id |-> id, page_reference |-> p]
Ch(id, ok, e) == [choice_id |-> id, is_correct |-> ok, explanation |-> e]
Exp(t, e) == [topic_id |-> t, explanation |-> e]

\* "s1" occurs in two topics and "s3" twice in one; page references are
\* positive, zero and absent
TopicPool ==
    { [id |-> "t1", subtopics |-> <<Sub("s1", 3), Sub("s2", 0)>>],
      [id |-> "t2", subtopics |-> <<Sub("s3", 5), Sub("s1", Undefined), Sub("s3", 4)>>],
      [id |-> "t3", subtopics |-> <<>>] }

\* No explanation, one per topic, an empty text, two for the same topic
ExplanationLists ==
    { <<>>,
      <<Exp("t1", "E1")>>,
      <<Exp("t2", ""), Exp("t1", "E1")>>,
      <<Exp("t1", "E0"), Exp("t2", "E2"), Exp("t1", "E1")>> }

\* One correct choice, no correct choice, the correct choice not first
QuestionPool ==
    { [question_id |-> "q1", question_text |-> "Q1", topic_id |-> "t1",
       choices |-> <<Ch("a", TRUE, "XA"), Ch("b", FALSE, "XB")>>],
      [question_id |-> "q2", question_text |-> "Q2", topic_id |-> "t1",
       choices |-> <<Ch("a", FALSE, "YA"), Ch("b", FALSE, "")>>],
      [question_id |-> "q3", question_text |-> "Q3", topic_id |-> "t2",
       choices |-> <<Ch("a", FALSE, "ZA"), Ch("b", TRUE, "ZB")>>] }

BSeq(S, n) == UNION { [1..k -> S] : k \in 0..n }

\* Topic lists with unique topic ids
TopicLists ==
    { ts \in BSeq(TopicPool, MaxTopics) :
        \A i, j \in 1..Len(ts) : i # j => ts[i].id # ts[j].id }

Datasets ==
    { [structure |-> [topics |-> ts],
       explanations |-> [topic_explanations |-> es],
       quiz |-> [questions |-> qs]] :
        ts \in TopicLists,
        es \in ExplanationLists,
        qs \in BSeq(QuestionPool, MaxQuestions) }

QueryIds == {"s1", "s2", "s3", "t1", "t2", "zz"}

-----------------------------------------------------------------------------
(* utils/dashboardData.ts *)

\* Array.prototype.find over the results of its predicate: the index of the
\* first element the predicate accepts, 0 if it accepts none
FindFirst(hits) ==
    IF \E i \in 1..Len(hits) : hits[i]
    THEN CHOOSE i \in 1..Len(hits) : hits[i] /\ \A k \in 1..(i-1) : ~hits[k]
    ELSE 0

\* The position of the last TRUE, 0 if there is none
FindLast(hits) ==
    IF \E i \in 1..Len(hits) : hits[i]
    THEN CHOOSE i \in 1..Len(hits) : hits[i] /\ \A k \in (i+1)..Len(hits) : ~hits[k]
    ELSE 0

\* findSubtopicById that keeps the last match instead of the first
findSubtopicById_LastMatch(data, subtopicId) ==
    LET topics == data.structure.topics
        i == FindLast([t \in 1..Len(topics) |->
                         \E j \in 1..Len(topics[t].subtopics) :
                             topics[t].subtopics[j].id = subtopicId])
    IN  IF i = 0 THEN <<>>
        ELSE LET subs == topics[i].subtopics
                 j == FindLast([k \in 1..Len(subs) |-> subs[k].id = subtopicId])
             IN  <<[topic |-> topics[i], subtopic |-> topics[i].subtopics[j]]>>

findSubtopicById(data, subtopicId) ==
    LET topics == data.structure.topics
        i == FindFirst([t \in 1..Len(topics) |->
                          \E j \in 1..Len(topics[t].subtopics) :
                              topics[t].subtopics[j].id = subtopicId])
    IN  IF i = 0 THEN <<>>
        ELSE LET subs == topics[i].subtopics
                 j == FindFirst([k \in 1..Len(subs) |-> subs[k].id = subtopicId])
             IN  <<[topic |-> topics[i], subtopic |-> topics[i].subtopics[j]]>>

getTopicExplanation(data, topicId) ==
    LET exps == data.explanations.topic_explanations
        i == FindFirst([k \in 1..Len(exps) |-> exps[k].topic_id = topicId])
    IN  IF i = 0 THEN Null
        ELSE IF exps[i].explanation = "" THEN Null ELSE exps[i].explanation

getSubtopicExplanation(data, subtopicId) ==
    LET result == findSubtopicById(data, subtopicId)
    IN  IF result = <<>> THEN Null
        ELSE getTopicExplanation(data, result[1].topic.id)

\* getTopicQuestions that returns the matching questions last first
getTopicQuestions_Reversed(data, topicId) ==
    LET IsFor(q) == q.topic_id = topicId
        found == SelectSeq(data.quiz.questions, IsFor)
    IN  [k \in 1..Len(found) |-> found[Len(found) + 1 - k]]

getTopicQuestions(data, topicId) ==
    LET IsFor(q) == q.topic_id = topicId
    IN  SelectSeq(data.quiz.questions, IsFor)

\* getSubtopicQuestions that filters the questions by the subtopic's own id
getSubtopicQuestions_OwnId(data, subtopicId) ==
    LET result == findSubtopicById(data, subtopicId)
    IN  IF result = <<>> THEN <<>>
        ELSE getTopicQuestions(data, result[1].subtopic.id)

getSubtopicQuestions(data, subtopicId) ==
    LET result == findSubtopicById(data, subtopicId)
    IN  IF result = <<>> THEN <<>>
        ELSE getTopicQuestions(data, result[1].topic.id)

convertQuestionToQuizFormat(question) ==
    [questionId |-> question.question_id,
     question |-> question.question_text,
     answers |-> [k \in 1..Len(question.choices) |->
                    [id |-> question.choices[k].choice_id,
                     isCorrect |-> question.choices[k].is_correct,
                     explanation |-> question.choices[k].explanation]]]

-----------------------------------------------------------------------------
(* DashboardPage *)

\* `explanation || "No explanation available."`
OrPlaceholder(explanation) ==
    IF Truthy(explanation) THEN explanation ELSE NoExplanation

\* The first Quiz render branch: a question is shown
QuizShown(stack, index) == Len(stack) > 0 /\ index < Len(stack)

\* A Quiz key made of the question index alone
QuizKey_IndexOnly(sel, index) == <<Null, index>>

\* The key of the mounted Quiz
QuizKey(sel, index) == <<sel, index>>

\* The effect without setQuestionsComplete(false)
StackEffect_KeepComplete(data, sel, cur) ==
    IF data = <<>> \/ ~Truthy(sel) THEN cur
    ELSE LET questions == getSubtopicQuestions(data[1], sel)
         IN  IF Len(questions) > 0
             THEN [text |-> OrPlaceholder(getSubtopicExplanation(data[1], sel)),
                   stack |-> [k \in 1..Len(questions) |->
                                convertQuestionToQuizFormat(questions[k])],
                   index |-> 0,
                   complete |-> cur.complete]
             ELSE [text |-> NoQuestions,
                   stack |-> <<>>,
                   index |-> 0,
                   complete |-> cur.complete]

\* The effect without setCurrentQuestionIndex(0)
StackEffect_KeepIndex(data, sel, cur) ==
    IF data = <<>> \/ ~Truthy(sel) THEN cur
    ELSE LET questions == getSubtopicQuestions(data[1], sel)
         IN  IF Len(questions) > 0
             THEN [text |-> OrPlaceholder(getSubtopicExplanation(data[1], sel)),
                   stack |-> [k \in 1..Len(questions) |->
                                convertQuestionToQuizFormat(questions[k])],
                   index |-> cur.index,
                   complete |-> FALSE]
             ELSE [text |-> NoQuestions,
                   stack |-> <<>>,
                   index |-> cur.index,
                   complete |-> FALSE]

\* useEffect(..., [dashboardData, selectedSubtopicId]) run on (data, sel),
\* as the new values of <<explanationText, questionStack,
\* currentQuestionIndex, questionsComplete>>
StackEffect(data, sel, cur) ==
    IF data = <<>> \/ ~Truthy(sel) THEN cur
    ELSE LET questions == getSubtopicQuestions(data[1], sel)
         IN  IF Len(questions) > 0
             THEN [text |-> OrPlaceholder(getSubtopicExplanation(data[1], sel)),
                   stack |-> [k \in 1..Len(questions) |->
                                convertQuestionToQuizFormat(questions[k])],
                   index |-> 0,
                   complete |-> FALSE]
             ELSE [text |-> NoQuestions,
                   stack |-> <<>>,
                   index |-> 0,
                   complete |-> FALSE]

Current == [text |-> explanationText, stack |-> questionStack,
            index |-> currentQuestionIndex, complete |-> questionsComplete]

\* The Quiz state after a re-render: a Quiz that is unmounted, mounted under
\* another key or handed another question text starts from its initial state
QuizAfterRender(newSel, newStack, newIndex) ==
    IF /\ QuizShown(questionStack, currentQuestionIndex)
       /\ QuizShown(newStack, newIndex)
       /\ QuizKey(newSel, newIndex) = QuizKey(selectedSubtopicId, currentQuestionIndex)
       /\ newStack[newIndex + 1].question = questionStack[currentQuestionIndex + 1].question
    THEN <<selectedAnswer, correctAnswerId, selectedExplanation>>
    ELSE <<Null, Null, Null>>

\* What an event found: used by the properties only
Pre(op, arg) == [op |-> op, arg |-> arg,
                 sel |-> selectedSubtopicId,
                 answered |-> selectedAnswer # Null,
                 complete |-> questionsComplete]

\* The upload state of a session in which nothing was uploaded yet
NoUpload ==
    /\ selectedFile = 0
    /\ uploadedPDF = 0
    /\ objectUrls = <<>>
    /\ revoked = {}
    /\ alertMessage = Null
    /\ pdfFile = 0
    /\ blobUrlRef = 0

\* The dashboard page right after it mounted
DashboardMounted ==
    /\ loadState = "pending"
    /\ dashboardData = <<>>
    /\ selectedSubtopicId = Null
    /\ pdfPageNumber = Undefined
    /\ explanationText = ""
    /\ questionStack = <<>>
    /\ currentQuestionIndex = 0
    /\ questionsComplete = FALSE
    /\ selectedAnswer = Null
    /\ correctAnswerId = Null
    /\ selectedExplanation = Null
    /\ last = [op |-> "init", arg |-> 0, sel |-> Null,
               answered |-> FALSE, complete |-> FALSE]
    /\ answeredLog = <<>>

\* The dashboard opened in a fresh session
Init ==
    /\ DashboardMounted
    /\ route = "/dashboard"
    /\ view = "dashboard"
    /\ NoUpload

\* Outcomes of the fetch of the dataset resource
FetchFailures == {"network_error", "not_ok", "parse_error"}

\* loadDashboardData without its try/catch
loadDashboardData_NoCatch(outcome, d) ==
    IF outcome = "ok"
    THEN [rejected |-> FALSE, data |-> <<d>>]
    ELSE IF outcome = "not_ok"
    THEN [rejected |-> FALSE, data |-> <<>>]
    ELSE [rejected |-> TRUE, data |-> <<>>]

\* loadDashboardData(): the value the promise settles with; a fetch or json()
\* exception is caught and a non-success response is answered with null
loadDashboardData(outcome, d) ==
    IF outcome = "ok"
    THEN [rejected |-> FALSE, data |-> <<d>>]
    ELSE [rejected |-> FALSE, data |-> <<>>]

\* A default selection that looks for the first topic with a subtopic
InitialSelection_AnyTopic(data, sel) ==
    LET topics == data.structure.topics
        i == FindFirst([t \in 1..Len(topics) |-> Len(topics[t].subtopics) > 0])
    IN  IF i > 0 THEN data.structure.topics[i].subtopics[1].id ELSE sel

\* The default selection of the load effect
InitialSelection(data, sel) ==
    IF Len(data.structure.topics) > 0 /\ Len(data.structure.topics[1].subtopics) > 0
    THEN data.structure.topics[1].subtopics[1].id
    ELSE sel

\* The state after the dataset, the selection or the progression changed
Render(newData, newSel, new) ==
    /\ dashboardData' = newData
    /\ selectedSubtopicId' = newSel
    /\ explanationText' = new.text
    /\ questionStack' = new.stack
    /\ currentQuestionIndex' = new.index
    /\ questionsComplete' = new.complete
    /\ selectedAnswer' = QuizAfterRender(newSel, new.stack, new.index)[1]
    /\ correctAnswerId' = QuizAfterRender(newSel, new.stack, new.index)[2]
    /\ selectedExplanation' = QuizAfterRender(newSel, new.stack, new.index)[3]

\* loadDashboardData().then((data) => ...) and the effects it triggers
LoadThen(result) ==
    IF result.rejected
    THEN /\ loadState' = "rejected"
         /\ UNCHANGED <<dashboardData, selectedSubtopicId, explanationText,
                        questionStack, currentQuestionIndex, questionsComplete,
                        quiz, answeredLog>>
    ELSE IF result.data # <<>>
    THEN LET sel == InitialSelection(result.data[1], selectedSubtopicId)
         IN  /\ loadState' = "loaded"
             /\ Render(result.data, sel, StackEffect(result.data, sel, Current))
             /\ answeredLog' = <<>>
    ELSE /\ loadState' = "failed"
         /\ UNCHANGED <<dashboardData, selectedSubtopicId, explanationText,
                        questionStack, currentQuestionIndex, questionsComplete,
                        quiz, answeredLog>>

\* The fetch succeeded
LoadSuccess ==
    /\ loadState = "pending"
    /\ \E d \in Datasets : LoadThen(loadDashboardData("ok", d))
    /\ last' = Pre("load", 0)
    /\ UNCHANGED <<pdfPageNumber, upload>>

\* The fetch failed
LoadFail ==
    /\ loadState = "pending"
    /\ \E outcome \in FetchFailures :
         /\ LoadThen(loadDashboardData(outcome, <<>>))
         /\ last' = Pre(outcome, 0)
    /\ UNCHANGED <<pdfPageNumber, upload>>

\* handleSubtopicClick that sets the page whatever the reference is
handleSubtopicClick_AlwaysPage(subtopicId, pageReference) ==
    /\ pdfPageNumber' = IF pageReference = Undefined THEN 1 ELSE pageReference
    /\ IF subtopicId # selectedSubtopicId
       THEN /\ Render(dashboardData, subtopicId,
                      StackEffect(dashboardData, subtopicId, Current))
            /\ answeredLog' = IF dashboardData = <<>> \/ ~Truthy(subtopicId)
                              THEN answeredLog ELSE <<>>
       ELSE UNCHANGED <<dashboardData, selectedSubtopicId, explanationText,
                        questionStack, currentQuestionIndex, questionsComplete,
                        quiz, answeredLog>>

\* handleSubtopicClick(subtopicId, pageReference), from the sidebar
handleSubtopicClick(subtopicId, pageReference) ==
    /\ pdfPageNumber' = IF TruthyNum(pageReference) /\ pageReference > 0
                        THEN pageReference ELSE pdfPageNumber
    /\ IF subtopicId # selectedSubtopicId
       THEN /\ Render(dashboardData, subtopicId,
                      StackEffect(dashboardData, subtopicId, Current))
            /\ answeredLog' = IF dashboardData = <<>> \/ ~Truthy(subtopicId)
                              THEN answeredLog ELSE <<>>
       ELSE UNCHANGED <<dashboardData, selectedSubtopicId, explanationText,
                        questionStack, currentQuestionIndex, questionsComplete,
                        quiz, answeredLog>>

Select ==
    /\ dashboardData # <<>>
    /\ \E i \in 1..Len(dashboardData[1].structure.topics) :
         \E j \in 1..Len(dashboardData[1].structure.topics[i].subtopics) :
           LET sub == dashboardData[1].structure.topics[i].subtopics[j]
           IN  /\ handleSubtopicClick(sub.id, sub.page_reference)
               /\ last' = Pre("select", sub.page_reference)
    /\ UNCHANGED <<loadState, upload>>

\* handleAnswerClick without its early return
handleAnswerClick_Reselect(answers, answerId, isCorrect, explanation) ==
    /\ selectedAnswer' = answerId
    /\ selectedExplanation' = explanation
    /\ correctAnswerId' =
         IF isCorrect THEN answerId
         ELSE LET c == FindFirst([k \in 1..Len(answers) |->
                                       answers[k].isCorrect])
              IN  IF c = 0 THEN correctAnswerId ELSE answers[c].id
    /\ explanationText' = explanation
    /\ answeredLog' = Append(answeredLog, currentQuestionIndex)

\* handleAnswerClick that reports the explanation of a correct pick only
handleAnswerClick_CorrectOnly(answers, answerId, isCorrect, explanation) ==
    IF Truthy(selectedAnswer)
    THEN UNCHANGED <<quiz, explanationText, answeredLog>>
    ELSE /\ selectedAnswer' = answerId
         /\ selectedExplanation' = explanation
         /\ correctAnswerId' =
              IF isCorrect THEN answerId
              ELSE LET c == FindFirst([k \in 1..Len(answers) |->
                                            answers[k].isCorrect])
                   IN  IF c = 0 THEN correctAnswerId ELSE answers[c].id
         /\ explanationText' = IF isCorrect THEN explanation ELSE explanationText
         /\ answeredLog' = Append(answeredLog, currentQuestionIndex)

\* Quiz.handleAnswerClick(answerId, isCorrect, explanation)
handleAnswerClick(answers, answerId, isCorrect, explanation) ==
    IF Truthy(selectedAnswer)
    THEN UNCHANGED <<quiz, explanationText, answeredLog>>
    ELSE /\ selectedAnswer' = answerId
         /\ selectedExplanation' = explanation
         /\ correctAnswerId' =
              IF isCorrect THEN answerId
              ELSE LET c == FindFirst([k \in 1..Len(answers) |->
                                            answers[k].isCorrect])
                   IN  IF c = 0 THEN correctAnswerId ELSE answers[c].id
         /\ explanationText' = explanation
         /\ answeredLog' = Append(answeredLog, currentQuestionIndex)

Answer ==
    /\ QuizShown(questionStack, currentQuestionIndex)
    /\ LET answers == questionStack[currentQuestionIndex + 1].answers
       IN  \E k \in 1..Len(answers) :
             /\ handleAnswerClick(answers, answers[k].id, answers[k].isCorrect,
                                  answers[k].explanation)
             /\ last' = Pre("answer", k)
    /\ UNCHANGED <<loadState, dashboardData, selectedSubtopicId, pdfPageNumber,
                   questionStack, currentQuestionIndex, questionsComplete, upload>>

\* handleNextQuestion that keeps the explanation of the picked choice
handleNextQuestion_KeepText ==
    IF currentQuestionIndex < Len(questionStack) - 1
    THEN Render(dashboardData, selectedSubtopicId,
                [text |-> explanationText,
                 stack |-> questionStack,
                 index |-> currentQuestionIndex + 1,
                 complete |-> questionsComplete])
    ELSE Render(dashboardData, selectedSubtopicId,
                [text |-> AllAnswered,
                 stack |-> questionStack,
                 index |-> currentQuestionIndex,
                 complete |-> TRUE])

\* handleNextQuestion that completes one question early
handleNextQuestion_OffByOne ==
    IF currentQuestionIndex < Len(questionStack) - 2
    THEN Render(dashboardData, selectedSubtopicId,
                [text |-> IF dashboardData # <<>> /\ Truthy(selectedSubtopicId)
                          THEN OrPlaceholder(getSubtopicExplanation(dashboardData[1],
                                                                    selectedSubtopicId))
                          ELSE explanationText,
                 stack |-> questionStack,
                 index |-> currentQuestionIndex + 1,
                 complete |-> questionsComplete])
    ELSE Render(dashboardData, selectedSubtopicId,
                [text |-> AllAnswered,
                 stack |-> questionStack,
                 index |-> currentQuestionIndex,
                 complete |-> TRUE])

\* DashboardPage.handleNextQuestion
handleNextQuestion ==
    IF currentQuestionIndex < Len(questionStack) - 1
    THEN Render(dashboardData, selectedSubtopicId,
                [text |-> IF dashboardData # <<>> /\ Truthy(selectedSubtopicId)
                          THEN OrPlaceholder(getSubtopicExplanation(dashboardData[1],
                                                                    selectedSubtopicId))
                          ELSE explanationText,
                 stack |-> questionStack,
                 index |-> currentQuestionIndex + 1,
                 complete |-> questionsComplete])
    ELSE Render(dashboardData, selectedSubtopicId,
                [text |-> AllAnswered,
                 stack |-> questionStack,
                 index |-> currentQuestionIndex,
                 complete |-> TRUE])

\* handleNext without the check that an answer was picked
handleNext_Unguarded == handleNextQuestion

\* Quiz.handleNext
handleNext ==
    IF Truthy(selectedAnswer)
    THEN handleNextQuestion
    ELSE UNCHANGED <<dashboardData, selectedSubtopicId, explanationText,
                     questionStack, currentQuestionIndex, questionsComplete, quiz>>

NextClick ==
    /\ QuizShown(questionStack, currentQuestionIndex)
    /\ handleNext
    /\ last' = Pre("next", 0)
    /\ UNCHANGED <<loadState, pdfPageNumber, answeredLog, upload>>

Next == LoadSuccess \/ LoadFail \/ Select \/ Answer \/ NextClick

Spec == Init /\ [][Next]_vars

TypeOK ==
    /\ loadState \in {"pending", "loaded", "failed", "rejected"}
    /\ Len(dashboardData) <= 1
    /\ currentQuestionIndex \in 0..MaxQuestions
    /\ questionsComplete \in BOOLEAN

-----------------------------------------------------------------------------
(* Question progression *)

Progress == <<currentQuestionIndex, questionsComplete, explanationText>>

\* The question list the selection sel derives from the loaded dataset
StackOf(sel) ==
    LET questions == getSubtopicQuestions(dashboardData[1], sel)
    IN  [k \in 1..Len(questions) |-> convertQuestionToQuizFormat(questions[k])]

\* C1: answering is one-shot per question: an answer click on a question
\* that already has a picked choice changes neither the picked choice, the
\* highlighted correct choice, the explanation, the index nor the complete
\* flag.
C1_AnswerOneShot ==
    [][(last'.op = "answer" /\ selectedAnswer # Null)
         => UNCHANGED <<selectedAnswer, correctAnswerId, selectedExplanation,
                        explanationText, currentQuestionIndex,
                        questionsComplete, questionStack>>]_vars

\* A second click, on another choice than the picked one, has been handled
C1_Witness ==
    /\ last.op = "answer"
    /\ last.answered
    /\ QuizShown(questionStack, currentQuestionIndex)
    /\ questionStack[currentQuestionIndex + 1].answers[last.arg].id # selectedAnswer

\* C2: an advance request on an unanswered question of a list in progress
\* leaves the index, the complete flag and the explanation text unchanged.
C2_AdvanceRejected ==
    [][(/\ last'.op = "next"
        /\ Len(questionStack) > 0
        /\ ~questionsComplete
        /\ selectedAnswer = Null)
         => UNCHANGED Progress]_vars

\* An advance was requested while the question shown was unanswered
C2_Witness ==
    /\ last.op = "next"
    /\ ~last.answered
    /\ ~last.complete
    /\ Len(questionStack) > 1
    /\ currentQuestionIndex = 0

\* C3: advancing from an answered question that is not the last one moves to
\* the next index with no choice picked and the explanation text reset to
\* the explanation of the selection, or to the placeholder if there is none.
C3_AdvanceMiddle ==
    [][(/\ last'.op = "next"
        /\ selectedAnswer # Null
        /\ currentQuestionIndex + 1 < Len(questionStack))
         => /\ currentQuestionIndex' = currentQuestionIndex + 1
            /\ ~questionsComplete'
            /\ questionStack' = questionStack
            /\ selectedAnswer' = Null
            /\ correctAnswerId' = Null
            /\ explanationText' =
                 LET e == getSubtopicExplanation(dashboardData[1], selectedSubtopicId)
                 IN  IF e = Null THEN NoExplanation ELSE e]_vars

\* The second question is shown after an advance that replaced the picked
\* choice's explanation by the topic explanation
C3_Witness ==
    /\ last.op = "next"
    /\ last.answered
    /\ currentQuestionIndex = 1
    /\ selectedAnswer = Null
    /\ explanationText = "E1"

\* C4: advancing from an answered last question sets the complete flag and
\* the completion message, and the complete flag is set only when every
\* question of the list was answered, in order.
C4_AdvanceLast ==
    /\ [](questionsComplete =>
            /\ Len(questionStack) > 0
            /\ answeredLog = [k \in 1..Len(questionStack) |-> k - 1])
    /\ [][(/\ last'.op = "next"
           /\ selectedAnswer # Null
           /\ currentQuestionIndex + 1 = Len(questionStack))
            => /\ questionsComplete'
               /\ explanationText' = AllAnswered]_vars

\* A list of two questions is complete
C4_Witness ==
    /\ last.op = "next"
    /\ questionsComplete
    /\ Len(questionStack) = 2
    /\ explanationText = AllAnswered

\* C5: once the complete flag is set, a step that keeps the selection keeps
\* the index, the flag and the explanation text, and a step that changes the
\* selection restarts at index 0 of the new selection's list, flag cleared.
C5_CompleteTerminal ==
    [][questionsComplete =>
         IF selectedSubtopicId' = selectedSubtopicId
         THEN UNCHANGED Progress
         ELSE /\ last'.op = "select"
              /\ questionStack' = StackOf(selectedSubtopicId')
              /\ currentQuestionIndex' = 0
              /\ ~questionsComplete']_vars

\* An advance was requested in the complete state
C5_Witness ==
    /\ last.op = "next"
    /\ last.complete
    /\ questionsComplete

-----------------------------------------------------------------------------
(* Selection, load and the rendered panels *)

\* Explanation component: `text || "No explanation available."`
ExplanationPanel == IF explanationText = "" THEN NoExplanation ELSE explanationText

\* The quiz panel: a question, the completion view or the placeholder
QuizPanel ==
    IF QuizShown(questionStack, currentQuestionIndex) THEN "question"
    ELSE IF questionsComplete THEN "complete"
    ELSE NoQuestions

\* The topics handed to the sidebar
SidebarTopics ==
    IF dashboardData = <<>> THEN <<>> ELSE dashboardData[1].structure.topics

\* What the dashboard shows
View == [selection |-> selectedSubtopicId,
         topics |-> SidebarTopics,
         stack |-> questionStack,
         index |-> currentQuestionIndex,
         complete |-> questionsComplete,
         explanation |-> ExplanationPanel,
         quizPanel |-> QuizPanel,
         pdfPage |-> pdfPageNumber]

EmptyView == [selection |-> Null,
              topics |-> <<>>,
              stack |-> <<>>,
              index |-> 0,
              complete |-> FALSE,
              explanation |-> NoExplanation,
              quizPanel |-> NoQuestions,
              pdfPage |-> Undefined]

\* C6: a click that changes the selected subtopic, whatever the progression
\* state, makes the question list the new selection's list, the index 0,
\* the complete flag false and leaves no choice picked.
C6_SelectionRestarts ==
    [][(last'.op = "select" /\ selectedSubtopicId' # selectedSubtopicId)
         => /\ questionStack' = StackOf(selectedSubtopicId')
            /\ currentQuestionIndex' = 0
            /\ ~questionsComplete'
            /\ selectedAnswer' = Null
            /\ correctAnswerId' = Null
            /\ selectedExplanation' = Null]_vars

\* The selection changed on an answered question and a question is shown
C6_Witness ==
    /\ last.op = "select"
    /\ last.sel # selectedSubtopicId
    /\ last.answered
    /\ QuizShown(questionStack, currentQuestionIndex)

\* C7: a subtopic click sets the PDF page to the clicked page_reference
\* exactly when it is positive; every other step leaves the page as it was.
C7_PdfPage ==
    [][pdfPageNumber' = IF last'.op = "select" /\ last'.arg > 0
                        THEN last'.arg ELSE pdfPageNumber]_vars

\* A subtopic with page_reference 0 was clicked and the page is still 5
C7_Witness ==
    /\ last.op = "select"
    /\ last.arg = 0
    /\ pdfPageNumber = 5

\* C8: right after the load the selection is the first subtopic of the
\* first topic if there is one, and otherwise absent with an empty question
\* state and the placeholder panels.
C8_InitialSelection ==
    last.op = "load" =>
        LET topics == dashboardData[1].structure.topics
        IN  IF Len(topics) > 0 /\ Len(topics[1].subtopics) > 0
            THEN selectedSubtopicId = topics[1].subtopics[1].id
            ELSE /\ selectedSubtopicId = Null
                 /\ questionStack = <<>>
                 /\ currentQuestionIndex = 0
                 /\ ~questionsComplete
                 /\ ExplanationPanel = NoExplanation
                 /\ QuizPanel = NoQuestions

\* A dataset whose first topic has no subtopic and whose second has some
C8_Witness ==
    /\ last.op = "load"
    /\ Len(dashboardData[1].structure.topics) = 2
    /\ Len(dashboardData[1].structure.topics[1].subtopics) = 0
    /\ Len(dashboardData[1].structure.topics[2].subtopics) > 0
    /\ Len(dashboardData[1].quiz.questions) > 0
    /\ selectedSubtopicId = Null

\* C9: a failed load is not raised and shows what a loaded dataset without
\* topics shows.
C9_FailedLoadIsEmpty ==
    /\ last.op \in FetchFailures =>
         /\ loadState = "failed"
         /\ dashboardData = <<>>
         /\ View = EmptyView
    /\ (last.op = "load" /\ Len(dashboardData[1].structure.topics) = 0) =>
         View = EmptyView

\* The fetch threw and the dashboard shows the empty view
C9_Witness ==
    /\ last.op = "network_error"
    /\ loadState = "failed"
    /\ View = EmptyView

\* The owning topic of a subtopic id: the first topic in document order
\* with a subtopic of that id, <<>> if there is none
OwnerOf(data, id) ==
    LET topics == data.structure.topics
        Owns(i) == \E j \in 1..Len(topics[i].subtopics) : topics[i].subtopics[j].id = id
        owners == { i \in 1..Len(topics) : Owns(i) }
    IN  IF owners = {} THEN <<>>
        ELSE <<topics[CHOOSE i \in owners : \A k \in owners : i <= k]>>

\* C10: fallback law: for an id with an owning topic t the subtopic
\* explanation and questions are those of t; for any other id they are
\* absent and the empty list.
C10_FallbackLaw ==
    dashboardData # <<>> =>
        \A id \in QueryIds :
            LET data == dashboardData[1]
                owner == OwnerOf(data, id)
            IN  IF owner # <<>>
                THEN /\ getSubtopicExplanation(data, id) = getTopicExplanation(data, owner[1].id)
                     /\ getSubtopicQuestions(data, id) = getTopicQuestions(data, owner[1].id)
                ELSE /\ getSubtopicExplanation(data, id) = Null
                     /\ getSubtopicQuestions(data, id) = <<>>

\* The selection resolves to a topic with an explanation and two questions,
\* and the stack was built from them
C10_Witness ==
    /\ dashboardData # <<>>
    /\ selectedSubtopicId # Null
    /\ OwnerOf(dashboardData[1], selectedSubtopicId) # <<>>
    /\ getSubtopicExplanation(dashboardData[1], selectedSubtopicId) = "E1"
    /\ Len(getSubtopicQuestions(dashboardData[1], selectedSubtopicId)) = 2
    /\ Len(questionStack) = 2
    /\ OwnerOf(dashboardData[1], "s3") = <<>>

-----------------------------------------------------------------------------
(* The upload page (app/page.tsx), the hand-off and the PDF viewer *)

MaxUploads == 4

\* The files the user can choose, by position, and their media types
Files == <<"a.pdf", "b.pdf", "notes.txt">>
FileType(f) == IF f \in {1, 2} THEN "application/pdf" ELSE "text/plain"

PdfOnly == "Please upload a PDF file only."

dashboard == <<loadState, dashboardData, selectedSubtopicId, pdfPageNumber,
               explanationText, questionStack, currentQuestionIndex,
               questionsComplete, selectedAnswer, correctAnswerId,
               selectedExplanation, answeredLog>>

\* handleFileChange that accepts any file
handleFileChange_AnyType(f) ==
    IF f = 0
    THEN /\ alertMessage' = Null
         /\ UNCHANGED <<selectedFile, uploadedPDF, objectUrls, route>>
    ELSE /\ alertMessage' = Null
         /\ selectedFile' = f
         /\ objectUrls' = Append(objectUrls, f)
         /\ uploadedPDF' = Len(objectUrls) + 1
         /\ route' = "/dashboard"

\* Home.handleFileChange with e.target.files[0] = f (0: no file chosen)
handleFileChange(f) ==
    IF f = 0
    THEN /\ alertMessage' = Null
         /\ UNCHANGED <<selectedFile, uploadedPDF, objectUrls, route>>
    ELSE IF FileType(f) # "application/pdf"
    THEN /\ alertMessage' = PdfOnly
         /\ UNCHANGED <<selectedFile, uploadedPDF, objectUrls, route>>
    ELSE /\ alertMessage' = Null
         /\ selectedFile' = f
         /\ objectUrls' = Append(objectUrls, f)
         /\ uploadedPDF' = Len(objectUrls) + 1
         /\ route' = "/dashboard"

\* The file input changed on the upload page
ChooseFile ==
    /\ view = "home"
    /\ Len(objectUrls) < MaxUploads
    /\ \E f \in 0..Len(Files) :
         /\ handleFileChange(f)
         /\ last' = Pre("file", f)
    /\ UNCHANGED <<dashboard, view, revoked, pdfFile, blobUrlRef>>

\* `file instanceof File` in PDFViewer: the dashboard hands it the string
\* read from sessionStorage, never a File
IsFileObject(file) == FALSE

\* The blob URL PDFViewer records when it loads `file`, and what it revokes
\* before (PDFViewer load effect)
ViewerLoad(file) ==
    IF file = 0 THEN [ref |-> blobUrlRef, revoke |-> {}]
    ELSE IF IsFileObject(file)
    THEN [ref |-> Len(objectUrls) + 1,
          revoke |-> IF blobUrlRef # 0 THEN {blobUrlRef} ELSE {}]
    ELSE [ref |-> blobUrlRef, revoke |-> {}]

\* The navigation to /dashboard completes: Home unmounts, DashboardPage and
\* PDFViewer mount and the stored URL is read
EnterDashboard ==
    /\ view = "home"
    /\ route = "/dashboard"
    /\ view' = "dashboard"
    /\ selectedFile' = 0
    /\ pdfFile' = uploadedPDF
    /\ blobUrlRef' = ViewerLoad(uploadedPDF).ref
    /\ revoked' = revoked \cup ViewerLoad(uploadedPDF).revoke
    /\ alertMessage' = Null
    /\ last' = Pre("enter", 0)
    /\ UNCHANGED <<dashboard, route, uploadedPDF, objectUrls>>

\* Sidebar.handleLogoClick
LogoClick ==
    /\ view = "dashboard"
    /\ route = "/dashboard"
    /\ route' = "/"
    /\ alertMessage' = Null
    /\ last' = Pre("logo", 0)
    /\ UNCHANGED <<dashboard, view, selectedFile, uploadedPDF, objectUrls, revoked,
                   pdfFile, blobUrlRef>>

\* The navigation to / completes: DashboardPage and PDFViewer unmount (the
\* viewer's cleanup revokes its own blob URL, if it has one), Home mounts
LeaveDashboard ==
    /\ view = "dashboard"
    /\ route = "/"
    /\ view' = "home"
    /\ revoked' = revoked \cup (IF blobUrlRef # 0 THEN {blobUrlRef} ELSE {})
    /\ blobUrlRef' = 0
    /\ pdfFile' = 0
    /\ selectedFile' = 0
    /\ alertMessage' = Null
    /\ last' = Pre("leave", 0)
    /\ UNCHANGED <<dashboard, route, uploadedPDF, objectUrls>>

\* A session that starts on the upload page
InitUpload ==
    /\ DashboardMounted
    /\ route = "/"
    /\ view = "home"
    /\ NoUpload

NextUpload == ChooseFile \/ EnterDashboard \/ LogoClick \/ LeaveDashboard

UploadSpec == InitUpload /\ [][NextUpload]_vars

\* C14: a chosen file that is not a PDF raises the message and leaves the
\* selected file, the hand-off slot and the route as they were; a PDF
\* becomes the selected file, gets a new URL written to the slot and
\* navigates to the dashboard.
C14_UploadTypeCheck ==
    [][last'.op = "file" =>
         IF last'.arg # 0 /\ FileType(last'.arg) = "application/pdf"
         THEN /\ selectedFile' = last'.arg
              /\ objectUrls' = Append(objectUrls, last'.arg)
              /\ uploadedPDF' = Len(objectUrls')
              /\ route' = "/dashboard"
              /\ alertMessage' = Null
         ELSE /\ UNCHANGED <<selectedFile, uploadedPDF, route, objectUrls>>
              /\ last'.arg # 0 => alertMessage' = PdfOnly]_vars

\* A text file was rejected while a PDF was selected and handed off
C14_Witness ==
    /\ last.op = "file"
    /\ FileType(last.arg) = "text/plain"
    /\ alertMessage = PdfOnly
    /\ selectedFile = 1
    /\ uploadedPDF = 1
    /\ route = "/dashboard"
    /\ view = "home"

\* C15: at most one created object URL is unreleased at any time.
C15_HandlesReleased ==
    Len(objectUrls) - Cardinality(revoked) <= 1

-----------------------------------------------------------------------------
(* Lookups, answers and the progression invariant *)

\* The positions <<topic, subtopic>> at which a subtopic id occurs
Occurrences(data, id) ==
    LET topics == data.structure.topics
    IN  UNION { { <<i, j>> : j \in { k \in 1..Len(topics[i].subtopics) :
                                       topics[i].subtopics[k].id = id } } :
                i \in 1..Len(topics) }

\* Document order of two positions
Precedes(p, q) == p[1] < q[1] \/ (p[1] = q[1] /\ p[2] <= q[2])

\* C11: findSubtopicById returns, for an id that occurs in the dataset, the
\* first occurrence in document order paired with the topic that contains
\* it, and absent for an id that occurs nowhere.
C11_FindSubtopic ==
    dashboardData # <<>> =>
        \A id \in QueryIds :
            LET data == dashboardData[1]
                topics == data.structure.topics
                occ == Occurrences(data, id)
                r == findSubtopicById(data, id)
            IN  IF occ = {} THEN r = <<>>
                ELSE LET first == CHOOSE p \in occ : \A q \in occ : Precedes(p, q)
                     IN  /\ r # <<>>
                         /\ r[1].topic = topics[first[1]]
                         /\ r[1].subtopic = topics[first[1]].subtopics[first[2]]
                         /\ r[1].subtopic.id = id
                         /\ \E j \in 1..Len(r[1].topic.subtopics) :
                                r[1].topic.subtopics[j] = r[1].subtopic

\* "s1" is selected in a dataset where it occurs in both topics, and "s3"
\* occurs twice in the first topic
C11_Witness ==
    /\ dashboardData # <<>>
    /\ Len(dashboardData[1].structure.topics) = 2
    /\ dashboardData[1].structure.topics[1].id = "t2"
    /\ selectedSubtopicId = "s1"
    /\ Cardinality(Occurrences(dashboardData[1], "s1")) = 2
    /\ Cardinality(Occurrences(dashboardData[1], "s3")) = 2
    /\ findSubtopicById(dashboardData[1], "s3")[1].subtopic.page_reference = 5

\* The positions of the questions of a topic in the question collection
PositionsOf(data, topicId) ==
    { i \in 1..Len(data.quiz.questions) : data.quiz.questions[i].topic_id = topicId }

\* The k-th smallest element of a set of positions
Nth(S, k) == CHOOSE i \in S : Cardinality({ j \in S : j <= i }) = k

\* C12: getTopicQuestions returns the questions of the topic, each once, in
\* the order of the collection, and the question stack of the selection
\* lists the selection's questions in that order.
C12_TopicQuestions ==
    dashboardData # <<>> =>
        /\ \A id \in QueryIds :
             LET data == dashboardData[1]
                 pos == PositionsOf(data, id)
                 r == getTopicQuestions(data, id)
             IN  /\ Len(r) = Cardinality(pos)
                 /\ \A k \in 1..Len(r) : r[k] = data.quiz.questions[Nth(pos, k)]
        /\ Truthy(selectedSubtopicId) =>
             LET data == dashboardData[1]
                 owner == findSubtopicById(data, selectedSubtopicId)
                 pos == IF owner = <<>> THEN {}
                        ELSE PositionsOf(data, owner[1].topic.id)
             IN  /\ Len(questionStack) = Cardinality(pos)
                 /\ \A k \in 1..Len(questionStack) :
                        /\ questionStack[k].questionId =
                             data.quiz.questions[Nth(pos, k)].question_id
                        /\ questionStack[k].question =
                             data.quiz.questions[Nth(pos, k)].question_text

\* The stack holds "q2" before "q1", as the collection does
C12_Witness ==
    /\ dashboardData # <<>>
    /\ Len(questionStack) = 2
    /\ questionStack[1].questionId = "q2"
    /\ questionStack[2].questionId = "q1"

\* The choices a Quiz with a picked answer paints as correct (getButtonStyle)
Highlighted ==
    IF QuizShown(questionStack, currentQuestionIndex) /\ Truthy(selectedAnswer)
    THEN LET answers == questionStack[currentQuestionIndex + 1].answers
         IN  { answers[k].id : k \in { i \in 1..Len(answers) : answers[i].isCorrect } }
    ELSE {}

\* C13: an accepted answer makes the explanation text the explanation of
\* the picked choice, correct or not; if the question has no correct choice,
\* no choice is highlighted or recorded as correct.
C13_PickedExplanation ==
    [][(last'.op = "answer" /\ selectedAnswer = Null)
         => LET answers == questionStack[currentQuestionIndex + 1].answers
                picked == answers[last'.arg]
            IN  /\ selectedAnswer' = picked.id
                /\ selectedExplanation' = picked.explanation
                /\ explanationText' = picked.explanation
                /\ (\A k \in 1..Len(answers) : ~answers[k].isCorrect)
                     => (correctAnswerId' = Null /\ Highlighted' = {})]_vars

\* A choice of the question without a correct choice was accepted
C13_Witness ==
    /\ last.op = "answer"
    /\ ~last.answered
    /\ QuizShown(questionStack, currentQuestionIndex)
    /\ questionStack[currentQuestionIndex + 1].questionId = "q2"
    /\ selectedAnswer = "a"
    /\ explanationText = "YA"
    /\ Highlighted = {}

StateEmpty == questionStack = <<>> /\ ~questionsComplete
StateInProgress == questionStack # <<>> /\ ~questionsComplete
StateComplete == questionStack # <<>> /\ questionsComplete

\* C16: exactly one of Empty, InProgress and Complete holds; an empty list
\* has index 0 and no complete flag, a non-empty one an index within the
\* list, and the complete flag is set only at the last index of a non-empty
\* list.
C16_ProgressionInvariant ==
    /\ Cardinality({ b \in {<<1, StateEmpty>>, <<2, StateInProgress>>,
                            <<3, StateComplete>>} : b[2] }) = 1
    /\ questionStack = <<>> => (currentQuestionIndex = 0 /\ ~questionsComplete)
    /\ questionStack # <<>> =>
         (0 <= currentQuestionIndex /\ currentQuestionIndex < Len(questionStack))
    /\ questionsComplete =>
         (questionStack # <<>> /\ currentQuestionIndex = Len(questionStack) - 1)

\* The selection changed from the second question of a list to a list of
\* one question
C16_Witness ==
    /\ last.op = "select"
    /\ last.sel # selectedSubtopicId
    /\ Len(answeredLog) = 0
    /\ Len(questionStack) = 1
    /\ currentQuestionIndex = 0
    /\ pdfPageNumber = 5
    /\ last.complete

\* C17: after a change of the selected subtopic the explanation text is the
\* explanation of the selection if it has one, whether or not it has
\* questions, and the placeholder otherwise.
C17_ExplanationDerived ==
    [][(last'.op = "select" /\ selectedSubtopicId' # selectedSubtopicId)
         => explanationText' =
              LET e == getSubtopicExplanation(dashboardData[1], selectedSubtopicId')
              IN  IF e = Null THEN NoExplanation ELSE e]_vars

\* C18: whenever the complete flag is set the quiz panel shows the
\* completion view and no question.
C18_CompletionView ==
    questionsComplete => QuizPanel = "complete"

====
